---------------------------- MODULE Spec2Model ----------------------------
(***************************************************************************)
(* Rational-function analysis core of the rational function game           *)
(* (src/math_utils.py, class RationalFunction).                            *)
(*                                                                         *)
(* A polynomial is its sequence of integer coefficients, highest degree    *)
(* first, as in the constructor's arguments.  The computer-algebra calls   *)
(* the class makes (gcd, simplify, degree, LC, solve, subs, float) are     *)
(* modelled by exact arithmetic: integers for coefficients and numbers of  *)
(* the form (a + b*sqrt(D))/c for roots and function values.  Python       *)
(* floats are modelled by the exact real they approximate.                 *)
(***************************************************************************)
EXTENDS Integers, Naturals, Sequences, FiniteSets, Bags, TLC

VARIABLES
    phase,            \* "new" before __init__ has run, "constructed" after
    numerator,        \* self.numerator: the coefficient list as given
    denominator,      \* self.denominator
    simplified_num,   \* self.simplified_num (a computer-algebra expression)
    simplified_den,   \* self.simplified_den
    call,             \* the method that ran last
    arg,              \* its argument
    ret,              \* what it returned or raised
    \* the game (src/game_logic.py, src/app.py); times are in ticks of 0.1 s,
    \* distances, positions and speeds in thousandths
    now,              \* time.time(), counted from the last reset()
    score,            \* GameState.score
    distance,         \* GameState.distance
    speed,            \* GameState.speed
    is_jumping,       \* GameState.is_jumping
    jump_timer,       \* GameState.jump_timer
    game_over,        \* GameState.game_over
    obstacles,        \* GameState.obstacles: [id, x_pos] in order of creation
    last_obstacle_time,
    last_update_time,
    game_started,     \* st.session_state.game_started
    current_question, \* st.session_state.current_question is not None
    player_name,      \* st.session_state.player_name
    scores,           \* ScoreManager.scores: a list of [name, score]
    op,               \* the handler or method of the game that ran last
    \* what has happened, for the statement of the properties
    spawned,          \* the number of obstacles created since the last reset()
    answered,         \* ids of the obstacles a correct answer was given for
    hit,              \* ids of the obstacles that set game_over in update()
    ended_by,         \* "answer" once a wrong answer has ended the game
    games,            \* the number of games started
    recorded,         \* the add_score calls of handle_answer since reset()
    added,            \* the entries added since the last clear_scores()
    \* the questions (src/question_generator.py)
    difficulty_level, \* QuestionGenerator.difficulty_level
    questions_answered,
    question,         \* the Question generate_question returned last, if any
    checked           \* the last answer given to check_answer and its result

functionVars == <<phase, numerator, denominator, simplified_num,
                  simplified_den, call, arg, ret>>

stateVars == <<score, distance, speed, is_jumping, jump_timer, game_over,
               obstacles, last_obstacle_time, last_update_time>>

historyVars == <<spawned, answered, hit, ended_by, games, recorded, added>>

gameVars == <<now, stateVars, game_started, current_question, player_name,
              scores, op, historyVars>>

quizVars == <<difficulty_level, questions_answered, question, checked>>

vars == <<functionVars, gameVars, quizVars>>

fields == <<numerator, denominator, simplified_num, simplified_den>>

(***************************************************************************)
(* Bounds of the model.                                                    *)
(***************************************************************************)
MaxCoef == 1      \* coefficients of the enumerated lists are in -MaxCoef..MaxCoef
MaxLen == 3       \* the longest coefficient list the generator builds
MaxX == 2         \* evaluate is called at the half-integers of -MaxX..MaxX
MaxPoints == 3    \* plot samples 0..MaxPoints points
ClipThreshold == 50
MaxTime == 640    \* the clock of a game stops at MaxTime ticks
MaxGames == 2     \* at most MaxGames games are started
MaxVaried == 1    \* entries other than the common one added between clears
MaxAdds == 52     \* entries added between two clear_scores()
MaxFake == 1      \* the random wrong options are drawn from -MaxFake..MaxFake
MaxAnswered == 6  \* generate_question is called while fewer were produced

(***************************************************************************)
(* Constants of the game.                                                  *)
(***************************************************************************)
TicksPerSecond == 10
Milli == 1000
MaxSpeed == 3
SpeedRamp == 100
FirstObstacleDelay == 60
MinObstacleInterval == 45
MaxObstacleInterval == 60
SpawnX == 50
ScrollScale == 10
RemoveX == -5
CollisionMin == -2
CollisionMax == 5
JumpDuration == 1
AnswerBonus == 10
AnswerSleep == 1
UpdateSleepTicks == 1
QuestionX == 50
TopScores == 50
RandCoef == 5
RandLead == 3
FakeWide == 5
FakeNarrow == 3
LevelStep == 5
MaxLevel == 5

(***************************************************************************)
(* Integer helpers.                                                        *)
(***************************************************************************)
Abs(n) == IF n < 0 THEN -n ELSE n

Sgn(n) == IF n < 0 THEN -1 ELSE IF n = 0 THEN 0 ELSE 1

RECURSIVE GCD(_, _)
GCD(a, b) == IF b = 0 THEN Abs(a) ELSE GCD(b, Abs(a) % Abs(b))

\* a / b for b # 0 dividing a exactly
ExactDiv(a, b) == Sgn(a) * Sgn(b) * (Abs(a) \div Abs(b))

(***************************************************************************)
(* Polynomials with integer coefficients.  The zero polynomial is <<>>.    *)
(***************************************************************************)
RECURSIVE Norm(_)
Norm(p) == IF p = <<>> THEN <<>>
           ELSE IF p[1] = 0 THEN Norm(Tail(p)) ELSE p

Deg(p) == Len(p) - 1

Scale(p, k) == Norm([i \in 1..Len(p) |-> k * p[i]])

DivByInt(p, k) == [i \in 1..Len(p) |-> ExactDiv(p[i], k)]

\* p * x^n
Shift(p, n) == IF p = <<>> THEN <<>> ELSE p \o [i \in 1..n |-> 0]

\* coefficient of x^e in the normalised polynomial p
Coef(p, e) == IF e < 0 \/ e > Deg(p) THEN 0 ELSE p[Len(p) - e]

PolySub(p, q) ==
    LET n == IF Len(p) > Len(q) THEN Len(p) ELSE Len(q)
    IN  Norm([i \in 1..n |-> Coef(p, n - i) - Coef(q, n - i)])

RECURSIVE ContentOf(_)
ContentOf(p) == IF p = <<>> THEN 0 ELSE GCD(p[1], ContentOf(Tail(p)))

\* primitive part with a positive leading coefficient
PrimPart(p) == IF p = <<>> THEN <<>>
               ELSE DivByInt(p, Sgn(p[1]) * ContentOf(p))

\* a pseudo-remainder of f by g # 0 (the remainder up to an integer factor)
RECURSIVE PRem(_, _)
PRem(f, g) ==
    IF Deg(f) < Deg(g) THEN f
    ELSE PRem(PolySub(Scale(f, g[1]),
                      Scale(Shift(g, Deg(f) - Deg(g)), f[1])), g)

RECURSIVE PrimGcd(_, _)
PrimGcd(f, g) == IF g = <<>> THEN PrimPart(f)
                 ELSE PrimGcd(g, PrimPart(PRem(f, g)))

\* the quotient f / g for g # 0 dividing f exactly over the integers
RECURSIVE PolyQuo(_, _)
PolyQuo(f, g) ==
    IF Deg(f) < Deg(g) THEN <<>>
    ELSE LET q == ExactDiv(f[1], g[1])
             k == Deg(f) - Deg(g)
             r == PolySub(f, Scale(Shift(g, k), q))
             rest == PolyQuo(r, g)
         IN  [i \in 1..(k + 1) |->
                 IF i = 1 THEN q ELSE Coef(rest, k + 1 - i)]


(***************************************************************************)
(* Exact numbers (a + b*sqrt(D))/c: the roots of the polynomials at hand   *)
(* and the values of polynomials at them.  Canonical form: c > 0, D free   *)
(* of square factors and not 0 or 1 when b # 0, D = 0 when b = 0, and a,   *)
(* b, c without a common factor.  D < 0 is a non-real number.              *)
(***************************************************************************)
\* the largest k with k*k dividing n # 0
SquareFactor(n) ==
    LET m == Abs(n)
    IN  CHOOSE k \in 1..m :
            /\ m % (k * k) = 0
            /\ \A j \in (k + 1)..m : m % (j * j) # 0

\* the rational n / d in lowest terms, d # 0
Rat(n, d) ==
    LET g == GCD(n, d)
    IN  IF d > 0 THEN [a |-> n \div g, b |-> 0, D |-> 0, c |-> d \div g]
        ELSE [a |-> (-n) \div g, b |-> 0, D |-> 0, c |-> (-d) \div g]

MkNum(a, b, D, c) ==
    IF b = 0 \/ D = 0 THEN Rat(a, c)
    ELSE LET k  == SquareFactor(D)
             D0 == D \div (k * k)
             g  == Sgn(c) * GCD(GCD(a, b * k), c)
         IN  IF D0 = 1 THEN Rat(a + b * k, c)
             ELSE [a |-> ExactDiv(a, g), b |-> ExactDiv(b * k, g), D |-> D0,
                   c |-> ExactDiv(c, g)]

IntNum(n) == Rat(n, 1)

\* the D of a result of two numbers (both irrational: the same field)
FieldOf(x, y) == IF x.b # 0 THEN x.D ELSE y.D

NumAdd(x, y) ==
    IF x.b = 0 /\ y.b = 0 THEN Rat(x.a * y.c + y.a * x.c, x.c * y.c)
    ELSE MkNum(x.a * y.c + y.a * x.c, x.b * y.c + y.b * x.c,
               FieldOf(x, y), x.c * y.c)

NumNeg(x) == [x EXCEPT !.a = -x.a, !.b = -x.b]

NumMul(x, y) ==
    IF x.b = 0 /\ y.b = 0 THEN Rat(x.a * y.a, x.c * y.c)
    ELSE
    LET D == FieldOf(x, y)
    IN  MkNum(x.a * y.a + x.b * y.b * D, x.a * y.b + x.b * y.a, D, x.c * y.c)

IsZero(x) == x.a = 0 /\ x.b = 0

\* x / y for y # 0: multiply by the conjugate of y
NumDiv(x, y) ==
    IF x.b = 0 /\ y.b = 0 THEN Rat(x.a * y.c, x.c * y.a)
    ELSE
    LET D == FieldOf(x, y)
        n == y.a * y.a - y.b * y.b * D
    IN  MkNum((x.a * y.a - x.b * y.b * D) * y.c,
              (x.b * y.a - x.a * y.b) * y.c, D, x.c * n)

IsReal(x) == x.b = 0 \/ x.D > 0

\* the sign of a real number
NumSign(x) ==
    IF x.b = 0 THEN Sgn(x.a)
    ELSE IF x.a = 0 THEN Sgn(x.b)
    ELSE IF Sgn(x.a) = Sgn(x.b) THEN Sgn(x.a)
    ELSE IF x.a * x.a > x.b * x.b * x.D THEN Sgn(x.a) ELSE Sgn(x.b)

NumLess(x, y) ==
    IF x.b = 0 /\ y.b = 0 THEN x.a * y.c < y.a * x.c
    ELSE NumSign(NumAdd(x, NumNeg(y))) < 0

NumAbs(x) == IF NumSign(x) < 0 THEN NumNeg(x) ELSE x

\* the value of the polynomial p at x (Horner)
RECURSIVE Horner(_, _, _)
Horner(p, x, acc) ==
    IF p = <<>> THEN acc
    ELSE Horner(Tail(p), x, NumAdd(NumMul(acc, x), IntNum(p[1])))

\* Horner at the rational n / d: the numerator of the value over d^Len(p)
RECURSIVE HornerRat(_, _, _, _, _)
HornerRat(p, n, d, acc, dpow) ==
    IF p = <<>> THEN acc
    ELSE HornerRat(Tail(p), n, d, acc * n + p[1] * dpow, dpow * d)

RECURSIVE IntPow(_, _)
IntPow(b, e) == IF e <= 0 THEN 1 ELSE b * IntPow(b, e - 1)

PolyAt(p, x) ==
    IF x.b = 0 THEN Rat(HornerRat(p, x.a, x.c, 0, 1), IntPow(x.c, Len(p) - 1))
    ELSE Horner(p, x, IntNum(0))

(***************************************************************************)
(* Computer-algebra expressions and Python values.                         *)
(* An expression is a polynomial in x, or nan (the value of 0/0).          *)
(* A value is a real number, None, +inf, -inf or nan.                      *)
(***************************************************************************)
Poly(c) == [nan |-> FALSE, c |-> c]

NaN == [nan |-> TRUE, c |-> <<>>]

Real(v) == [k |-> "real", v |-> v]

None == [k |-> "none", v |-> IntNum(0)]

PosInf == [k |-> "inf", v |-> IntNum(0)]

NegInf == [k |-> "-inf", v |-> IntNum(0)]

NanVal == [k |-> "nan", v |-> IntNum(0)]

Returned(v) == [exc |-> "", val |-> v]

Raised(e) == [exc |-> e, val |-> <<>>]

\* sum(coeff * x**(len - 1 - i)): leading zero coefficients vanish
PolyOf(coeffs) == Norm(coeffs)

\* sp.gcd over the integers: the gcd of the contents times the primitive
\* gcd, with a positive leading coefficient; gcd(0, 0) = 0
PolyGcd(f, g) ==
    IF f = <<>> /\ g = <<>> THEN <<>>
    ELSE Scale(PrimGcd(f, g), GCD(ContentOf(f), ContentOf(g)))

\* sp.simplify(p / gcd): the exact quotient; 0 / 0 is nan
QuoByGcd(p, g) == IF g = <<>> THEN NaN ELSE Poly(PolyQuo(p, g))

\* mutant: only the numerator is divided by the gcd
SimplifyNumeratorOnly(num_poly, den_poly) ==
    <<QuoByGcd(num_poly, PolyGcd(num_poly, den_poly)), Poly(den_poly)>>

Simplify(num_poly, den_poly) ==
    LET gcd == PolyGcd(num_poly, den_poly)
    IN  <<QuoByGcd(num_poly, gcd), QuoByGcd(den_poly, gcd)>>

\* sp.degree: -oo (here -1) for 0, 0 for any other number
Degree(e) == IF e.nan THEN 0 ELSE Deg(e.c)

\* sp.LC fails on an expression without x ("failed without generators")
HasLC(e) == ~e.nan /\ Deg(e.c) >= 1

LC(e) == e.c[1]

\* sp.solve(e, x): the distinct roots, the real ones in ascending order;
\* nothing for an expression without x
Solve(e) ==
    IF e.nan \/ Deg(e.c) <= 0 THEN <<>>
    ELSE IF Deg(e.c) = 1 THEN << Rat(-e.c[2], e.c[1]) >>
    ELSE LET a  == e.c[1]
             b  == e.c[2]
             D  == b * b - 4 * a * e.c[3]
             r1 == MkNum(-b, -1, D, 2 * a)
             r2 == MkNum(-b, 1, D, 2 * a)
         IN  IF D = 0 THEN << Rat(-b, 2 * a) >>
             ELSE IF D > 0 /\ NumLess(r2, r1) THEN <<r2, r1>>
             ELSE <<r1, r2>>

\* sorted(list of floats)
RECURSIVE Insert(_, _)
Insert(x, s) ==
    IF s = <<>> THEN <<x>>
    ELSE IF NumLess(s[1], x) THEN <<s[1]>> \o Insert(x, Tail(s))
    ELSE <<x>> \o s

RECURSIVE Sorted(_)
Sorted(s) == IF s = <<>> THEN <<>> ELSE Insert(s[1], Sorted(Tail(s)))

\* num.subs(x, x_val) / den.subs(x, x_val): n/0 is zoo, 0/0 is nan
SubsRatio(num, den, x_val) ==
    IF num.nan \/ den.nan THEN [k |-> "nan", v |-> IntNum(0)]
    ELSE LET n == PolyAt(num.c, x_val)
             d == PolyAt(den.c, x_val)
         IN  IF ~IsZero(d) THEN [k |-> "real", v |-> NumDiv(n, d)]
             ELSE IF IsZero(n) THEN [k |-> "nan", v |-> IntNum(0)]
             ELSE [k |-> "zoo", v |-> IntNum(0)]

\* mutant: float() of a division by zero yields a value
FloatNeverFails(q) == FALSE

\* float(q) raises TypeError for zoo; float(nan) is nan
FloatFails(q) == q.k = "zoo"

(***************************************************************************)
(* The methods of RationalFunction, as functions of the object's fields.   *)
(***************************************************************************)
num_poly == PolyOf(numerator)

den_poly == PolyOf(denominator)

\* mutant: the roots of the original denominator
asymptotes_of_original ==
    Returned(Sorted(SelectSeq(Solve(Poly(den_poly)), IsReal)))

vertical_asymptotes ==
    Returned(Sorted(SelectSeq(Solve(simplified_den), IsReal)))

horizontal_asymptote ==
    LET num_degree == Degree(simplified_num)
        den_degree == Degree(simplified_den)
    IN  IF num_degree < den_degree THEN Returned(Real(IntNum(0)))
        ELSE IF num_degree = den_degree
        THEN IF HasLC(simplified_num) /\ HasLC(simplified_den)
             THEN Returned(Real(Rat(LC(simplified_num), LC(simplified_den))))
             ELSE Raised("ComputationFailed")
        ELSE Returned(None)

\* the loop of holes() over the roots of the gcd
RECURSIVE HolesAt(_)
HolesAt(roots) ==
    IF roots = <<>> THEN <<>>
    ELSE LET x_val == roots[1]
             q     == SubsRatio(simplified_num, simplified_den, x_val)
         IN  IF IsReal(x_val) /\ ~FloatFails(q)
             THEN << [x |-> x_val, y |-> q] >> \o HolesAt(Tail(roots))
             ELSE HolesAt(Tail(roots))

\* mutant: the roots of the original numerator instead of the gcd
holes_of_numerator == Returned(HolesAt(Solve(Poly(num_poly))))

holes ==
    LET gcd == PolyGcd(num_poly, den_poly)
    IN  IF gcd = <<1>> THEN Returned(<<>>)
        ELSE Returned(HolesAt(Solve(Poly(gcd))))

x_intercepts ==
    Returned(Sorted(SelectSeq(Solve(simplified_num), IsReal)))

\* mutant: the intercept is taken from the original pair
y_intercept_of_original ==
    IF IsZero(PolyAt(den_poly, IntNum(0)))
    THEN Returned(None)
    ELSE Returned(SubsRatio(Poly(num_poly), Poly(den_poly), IntNum(0)))

y_intercept ==
    IF ~simplified_den.nan /\ IsZero(PolyAt(simplified_den.c, IntNum(0)))
    THEN Returned(None)
    ELSE LET q == SubsRatio(simplified_num, simplified_den, IntNum(0))
         IN  IF FloatFails(q) THEN Returned(None) ELSE Returned(q)

end_behavior ==
    LET ha == horizontal_asymptote
    IN  IF ha.exc # "" THEN ha
        ELSE IF ha.val # None
        THEN IF IsZero(ha.val.v)
             THEN Returned([text |-> "approaches 0", h |-> IntNum(0)])
             ELSE Returned([text |-> "approaches {ha}", h |-> ha.val.v])
        ELSE IF Degree(simplified_num) > Degree(simplified_den)
        THEN IF HasLC(simplified_num) /\ HasLC(simplified_den)
             THEN IF LC(simplified_num) * LC(simplified_den) > 0
                  THEN Returned([text |-> "approaches infinity",
                                 h |-> IntNum(0)])
                  ELSE Returned([text |-> "approaches -infinity",
                                 h |-> IntNum(0)])
             ELSE Raised("ComputationFailed")
        ELSE Returned([text |-> "approaches 0", h |-> IntNum(0)])

\* mutant: no try/except around the division
evaluate_unguarded(x_val) ==
    SubsRatio(simplified_num, simplified_den, x_val)

evaluate(x_val) ==
    LET q == SubsRatio(simplified_num, simplified_den, x_val)
    IN  IF FloatFails(q) THEN PosInf ELSE q

\* np.linspace(start, stop, num)
Linspace(start, stop, num) ==
    IF num = 1 THEN << IntNum(start) >>
    ELSE [i \in 1..num |->
             Rat(start * (num - 1) + (i - 1) * (stop - start), num - 1)]

\* mutant: every value beyond the threshold becomes +inf
ClipUnsigned(y_val) ==
    IF y_val.k = "nan" THEN y_val
    ELSE IF y_val.k = "inf" THEN PosInf
    ELSE IF NumLess(IntNum(ClipThreshold), NumAbs(y_val.v)) THEN PosInf
    ELSE y_val

\* the clipping of plot(): values beyond the threshold become +-inf
Clip(y_val) ==
    IF y_val.k = "nan" THEN y_val
    ELSE IF y_val.k = "inf" THEN PosInf
    ELSE IF NumLess(IntNum(ClipThreshold), NumAbs(y_val.v))
    THEN IF NumSign(y_val.v) > 0 THEN PosInf ELSE NegInf
    ELSE y_val

\* what plot() hands to ax.plot; the asymptote queries that follow can raise,
\* after the curve has been drawn
plot(x_range, num_points) ==
    LET x_vals == Linspace(x_range[1], x_range[2], num_points)
        y_vals == [i \in 1..num_points |-> Clip(evaluate(x_vals[i]))]
    IN  [exc |-> horizontal_asymptote.exc,
         val |-> [x_vals |-> x_vals, y_vals |-> y_vals]]

\* One printed term of a polynomial: a sign, the magnitude of the coefficient
\* (left out when it is 1 and the term has an x) and the power of x (0 for a
\* constant term): 2*x**2 is [neg |-> FALSE, coef |-> <<2>>, pow |-> 2] and
\* -x is [neg |-> TRUE, coef |-> <<>>, pow |-> 1].
TermOf(c, e) ==
    [neg  |-> c < 0,
     coef |-> IF Abs(c) = 1 /\ e > 0 THEN <<>> ELSE <<Abs(c)>>,
     pow  |-> e]

\* str(expr) and sp.latex(expr) of a polynomial expression: one term for
\* each nonzero coefficient, "0" for the zero expression
PolyText(p) ==
    IF p = <<>> THEN << TermOf(0, 0) >>
    ELSE LET idx == SelectSeq([i \in 1..Len(p) |-> i], LAMBDA i : p[i] # 0)
         IN  [k \in 1..Len(idx) |-> TermOf(p[idx[k]], Len(p) - idx[k])]

\* mutant: the text is made from the simplified pair
text_of_simplified(fmt) ==
    Returned([fmt |-> fmt,
              num |-> PolyText(simplified_num.c),
              den |-> PolyText(simplified_den.c)])

\* to_latex ("latex") and __str__ ("str"): f(x) = (num_poly) / (den_poly)
text_of_original(fmt) ==
    Returned([fmt |-> fmt,
              num |-> PolyText(num_poly),
              den |-> PolyText(den_poly)])

to_latex == text_of_original("latex")

str == text_of_original("str")

(***************************************************************************)
(* The score list (src/score_manager.py).                                  *)
(***************************************************************************)
\* list.sort(key=score, reverse=True): a stable sort, so the entries of the
\* greatest score come first, in the order they had, then those of the next
\* score, and so on
RECURSIVE ByScores(_, _)
ByScores(s, keys) ==
    IF keys = {} THEN <<>>
    ELSE LET m == CHOOSE k \in keys : \A j \in keys : j <= k
         IN  SelectSeq(s, LAMBDA e : e.score = m) \o ByScores(s, keys \ {m})

SortByScore(s) == ByScores(s, {s[i].score : i \in 1..Len(s)})

Take(s, n) == IF Len(s) <= n THEN s ELSE SubSeq(s, 1, n)

\* mutant: the list is not cut to its first 50 entries
add_score_uncut(list, name, sc) ==
    SortByScore(Append(list, [name |-> name, score |-> sc]))

\* mutant: the new entry goes before the entries of the same score
add_score_newest_first(list, name, sc) ==
    Take(SortByScore(<< [name |-> name, score |-> sc] >> \o list), TopScores)

add_score(list, name, sc) ==
    Take(SortByScore(Append(list, [name |-> name, score |-> sc])), TopScores)

(***************************************************************************)
(* The game state (src/game_logic.py) and the session (src/app.py).        *)
(***************************************************************************)
Min(a, b) == IF a < b THEN a ELSE b

\* GameState.reset(); the three times it stores are the time of the call,
\* which is the origin of the clock from then on
reset ==
    /\ now' = 0
    /\ score' = 0
    /\ distance' = 0
    /\ speed' = Milli
    /\ is_jumping' = FALSE
    /\ jump_timer' = 0
    /\ game_over' = FALSE
    /\ obstacles' = <<>>
    /\ last_obstacle_time' = 0
    /\ last_update_time' = 0
    /\ spawned' = 0
    /\ answered' = {}
    /\ hit' = {}
    /\ ended_by' = ""
    /\ recorded' = <<>>

\* st.session_state.current_question = None
NoQuestion == [kind |-> "none"]

\* the session state after the first run of the script
SessionInit ==
    /\ now = 0
    /\ score = 0
    /\ distance = 0
    /\ speed = Milli
    /\ is_jumping = FALSE
    /\ jump_timer = 0
    /\ game_over = FALSE
    /\ obstacles = <<>>
    /\ last_obstacle_time = 0
    /\ last_update_time = 0
    /\ game_started = FALSE
    /\ current_question = FALSE
    /\ player_name = ""
    /\ scores = <<>>
    /\ op = ""
    /\ spawned = 0
    /\ answered = {}
    /\ hit = {}
    /\ ended_by = ""
    /\ games = 0
    /\ recorded = <<>>
    /\ added = <<>>
    /\ difficulty_level = 1
    /\ questions_answered = 0
    /\ question = NoQuestion
    /\ checked = <<>>

(***************************************************************************)
(* The state machine: one object is constructed, then queried.             *)
(***************************************************************************)
CoefLists == UNION {[1..n -> -MaxCoef..MaxCoef] : n \in 0..MaxLen}

\* functions outside the enumerated box: a double root in the denominator,
\* a numerator that is a multiple of the denominator, a rational and an
\* irrational asymptote, irrational holes, and the worked examples
ExtraPairs ==
    { << <<1, -1>>, <<1, -2, 1>> >>,
      << <<2, 2>>, <<1, 1>> >>,
      << <<1>>, <<2, -1>> >>,
      << <<1>>, <<1, 0, -2>> >>,
      << <<1, 0, -2>>, <<2, 0, -4>> >>,
      << <<1>>, <<1, 0, -4>> >>,
      << <<1, 0, -1>>, <<1, -1>> >>,
      << <<1, 0, 0>>, <<1>> >>,
      << <<2, 0>>, <<4>> >> }

EvalPoints == {Rat(k, 2) : k \in (-2 * MaxX)..(2 * MaxX)}

PlotRanges == { <<-10, 10>>, <<-1, 1>> }

Init ==
    /\ phase = "new"
    /\ numerator = <<>>
    /\ denominator = <<>>
    /\ simplified_num = NaN
    /\ simplified_den = NaN
    /\ call = ""
    /\ arg = <<>>
    /\ ret = Returned(<<>>)
    /\ SessionInit

\* __init__: no check of the denominator is made
RationalFunction(num, den) ==
    /\ phase = "new"
    /\ phase' = "constructed"
    /\ numerator' = num
    /\ denominator' = den
    /\ LET s == Simplify(PolyOf(num), PolyOf(den))
       IN  /\ simplified_num' = s[1]
           /\ simplified_den' = s[2]
    /\ call' = "__init__"
    /\ arg' = <<>>
    /\ ret' = Returned(<<>>)
    /\ UNCHANGED <<gameVars, quizVars>>

Construct ==
    /\ phase = "new"
    /\ \/ \E num \in CoefLists, den \in CoefLists : RationalFunction(num, den)
       \/ \E pr \in ExtraPairs : RationalFunction(pr[1], pr[2])

\* the constructor applied to the coefficients of an object's simplified pair
RebuildFromSimplified ==
    /\ phase = "constructed"
    /\ call = "idle"
    /\ ~simplified_num.nan
    /\ ~simplified_den.nan
    /\ numerator' = simplified_num.c
    /\ denominator' = simplified_den.c
    /\ LET s == Simplify(PolyOf(simplified_num.c), PolyOf(simplified_den.c))
       IN  /\ simplified_num' = s[1]
           /\ simplified_den' = s[2]
    /\ call' = "__init__"
    /\ arg' = << simplified_num, simplified_den >>
    /\ ret' = Returned(<<>>)
    /\ UNCHANGED <<phase, gameVars, quizVars>>

\* the caller takes the result; the object is ready for the next call
Done ==
    /\ phase = "constructed"
    /\ call # "idle"
    /\ call' = "idle"
    /\ arg' = <<>>
    /\ ret' = Returned(<<>>)
    /\ UNCHANGED <<phase, fields, gameVars, quizVars>>

Query(name, a, result) ==
    /\ phase = "constructed"
    /\ call = "idle"
    /\ call' = name
    /\ arg' = a
    /\ ret' = result
    /\ UNCHANGED <<phase, fields, gameVars, quizVars>>

CallVerticalAsymptotes == Query("vertical_asymptotes", <<>>, vertical_asymptotes)

CallHorizontalAsymptote == Query("horizontal_asymptote", <<>>, horizontal_asymptote)

CallHoles == Query("holes", <<>>, holes)

CallXIntercepts == Query("x_intercepts", <<>>, x_intercepts)

CallYIntercept == Query("y_intercept", <<>>, y_intercept)

CallEndBehavior == Query("end_behavior", <<>>, end_behavior)

CallToLatex == Query("to_latex", <<>>, to_latex)

CallStr == Query("__str__", <<>>, str)

CallEvaluate ==
    /\ call = "idle"
    /\ \E x_val \in EvalPoints : Query("evaluate", <<x_val>>, Returned(evaluate(x_val)))

CallPlot ==
    /\ call = "idle"
    /\ \E x_range \in PlotRanges, num_points \in 0..MaxPoints :
        Query("plot", <<x_range, num_points>>, plot(x_range, num_points))

Next ==
    \/ Construct
    \/ RebuildFromSimplified
    \/ Done
    \/ CallVerticalAsymptotes
    \/ CallHorizontalAsymptote
    \/ CallHoles
    \/ CallXIntercepts
    \/ CallYIntercept
    \/ CallEndBehavior
    \/ CallToLatex
    \/ CallStr
    \/ CallEvaluate
    \/ CallPlot

Spec == Init /\ [][Next]_vars

(***************************************************************************)
(* The state machine of the game: the handlers of src/app.py acting on the *)
(* GameState and the ScoreManager of the session.                          *)
(***************************************************************************)
Names == {"", "ann"}

\* the obstacle the question is shown for: min(obstacles, key=x_pos)
NextObstacle ==
    obstacles[CHOOSE i \in 1..Len(obstacles) :
                 /\ \A j \in 1..Len(obstacles) :
                        obstacles[i].x_pos <= obstacles[j].x_pos
                 /\ \A j \in 1..(i - 1) :
                        obstacles[j].x_pos > obstacles[i].x_pos]

\* render_game shows the question and the Submit button; the run that
\* follows handle_answer reaches update() before the button is used again
QuestionShown ==
    /\ op # "handle_answer"
    /\ game_started
    /\ ~game_over
    /\ current_question
    /\ obstacles # <<>>
    /\ NextObstacle.x_pos < QuestionX * Milli

\* GameState.update() past its first test; r is random.uniform(45.0, 60.0)
update_running(r) ==
    LET dt == now - last_update_time
        distance1 == distance + (speed * dt) \div TicksPerSecond
        speed1 == Min(MaxSpeed * Milli, Milli + distance1 \div SpeedRamp)
        timer1 == IF is_jumping THEN jump_timer - dt ELSE jump_timer
        jumping1 == is_jumping /\ timer1 > 0
        elapsed == now - last_obstacle_time
        spawn == \/ /\ Len(obstacles) = 0
                    /\ elapsed > FirstObstacleDelay * TicksPerSecond
                 \/ /\ Len(obstacles) > 0
                    /\ elapsed > r
        obstacles1 == IF spawn
                      THEN Append(obstacles, [id |-> spawned + 1,
                                              x_pos |-> SpawnX * Milli])
                      ELSE obstacles
        step == (speed1 * dt * ScrollScale) \div TicksPerSecond
        moved == [i \in 1..Len(obstacles1) |->
                     [obstacles1[i] EXCEPT !.x_pos = @ - step]]
        colliding == {i \in 1..Len(moved) :
                         /\ moved[i].x_pos >= RemoveX * Milli
                         /\ moved[i].x_pos <= CollisionMax * Milli
                         /\ moved[i].x_pos >= CollisionMin * Milli
                         /\ ~jumping1}
    IN  /\ last_update_time' = now
        /\ distance' = distance1
        /\ speed' = speed1
        /\ score' = score + (speed1 * dt) \div (Milli * TicksPerSecond)
        /\ jump_timer' = timer1
        /\ is_jumping' = jumping1
        /\ obstacles' = SelectSeq(moved, LAMBDA o : o.x_pos >= RemoveX * Milli)
        /\ last_obstacle_time' = IF spawn THEN now ELSE last_obstacle_time
        /\ spawned' = IF spawn THEN spawned + 1 ELSE spawned
        /\ game_over' = (colliding # {})
        /\ hit' = hit \cup {moved[i].id : i \in colliding}

\* mutant: update() without its test of game_over
update_unguarded(r) == update_running(r)

\* GameState.update()
update(r) ==
    IF game_over
    THEN UNCHANGED <<stateVars, spawned, hit>>
    ELSE update_running(r)

\* GameState.jump()
jump ==
    IF ~is_jumping
    THEN is_jumping' = TRUE /\ jump_timer' = JumpDuration * TicksPerSecond
    ELSE UNCHANGED <<is_jumping, jump_timer>>

\* st.text_input on the start screen
EnterName(n) ==
    /\ ~game_started
    /\ n # player_name
    /\ player_name' = n
    /\ op' = "text_input"
    /\ UNCHANGED <<functionVars, quizVars, now, stateVars, game_started,
                   current_question, scores, historyVars>>

\* start_game()
StartGame ==
    /\ ~game_started
    /\ player_name # ""
    /\ games < MaxGames
    /\ game_started' = TRUE
    /\ reset
    /\ current_question' = TRUE
    /\ games' = games + 1
    /\ op' = "start_game"
    /\ UNCHANGED <<functionVars, quizVars, player_name, scores, added>>

\* reset_game(): the Reset Game and Play Again buttons
ResetGame ==
    /\ game_started
    /\ reset
    /\ current_question' = FALSE
    /\ game_started' = FALSE
    /\ op' = "reset_game"
    /\ UNCHANGED <<functionVars, quizVars, player_name, scores, games, added>>

\* the end of render_game(): update(), time.sleep(0.1), st.rerun()
RenderGameUpdate ==
    /\ game_started
    /\ ~game_over
    /\ now + UpdateSleepTicks <= MaxTime
    /\ \E r \in {MinObstacleInterval * TicksPerSecond,
                 MaxObstacleInterval * TicksPerSecond} : update(r)
    /\ now' = now + UpdateSleepTicks
    /\ op' = "update"
    /\ UNCHANGED <<functionVars, quizVars, game_started, current_question, player_name,
                   scores, answered, ended_by, games, recorded, added>>

\* GameState.update() called on a game that is over
UpdateAfterGameOver ==
    /\ game_started
    /\ game_over
    /\ now + UpdateSleepTicks <= MaxTime
    /\ \E r \in {MinObstacleInterval * TicksPerSecond,
                 MaxObstacleInterval * TicksPerSecond} : update(r)
    /\ now' = now + UpdateSleepTicks
    /\ op' = "update"
    /\ UNCHANGED <<functionVars, quizVars, game_started, current_question, player_name,
                   scores, answered, ended_by, games, recorded, added>>

\* handle_answer(answer) on a correct answer
HandleCorrectAnswer ==
    /\ QuestionShown
    /\ now + AnswerSleep * TicksPerSecond <= MaxTime
    /\ jump
    /\ score' = score + AnswerBonus
    /\ answered' = answered \cup {NextObstacle.id}
    /\ current_question' = TRUE
    /\ now' = now + AnswerSleep * TicksPerSecond
    /\ op' = "handle_answer"
    /\ UNCHANGED <<functionVars, quizVars, distance, speed, game_over, obstacles,
                   last_obstacle_time, last_update_time, game_started,
                   player_name, scores, spawned, hit, ended_by, games,
                   recorded, added>>

\* handle_answer(answer) on a wrong answer
HandleWrongAnswer ==
    /\ QuestionShown
    /\ now + AnswerSleep * TicksPerSecond <= MaxTime
    /\ game_over' = TRUE
    /\ scores' = add_score(scores, player_name, score)
    /\ ended_by' = "answer"
    /\ recorded' = Append(recorded, [name |-> player_name, score |-> score])
    /\ added' = Append(added, [name |-> player_name, score |-> score])
    /\ current_question' = TRUE
    /\ now' = now + AnswerSleep * TicksPerSecond
    /\ op' = "handle_answer"
    /\ UNCHANGED <<functionVars, quizVars, score, distance, speed, is_jumping,
                   jump_timer, obstacles, last_obstacle_time,
                   last_update_time, game_started, player_name, spawned,
                   answered, hit, games>>

GameNext ==
    \/ \E n \in Names : EnterName(n)
    \/ StartGame
    \/ ResetGame
    \/ RenderGameUpdate
    \/ UpdateAfterGameOver
    \/ HandleCorrectAnswer
    \/ HandleWrongAnswer

GameSpec == Init /\ [][GameNext]_vars

(***************************************************************************)
(* The state machine of the score list: add_score and clear_scores called  *)
(* in any order on the ScoreManager of the session.  Most entries are one  *)
(* common entry; up to MaxVaried entries between two clears are any other  *)
(* name and score.                                                         *)
(***************************************************************************)
Points == 1..3

CommonEntry == [name |-> "ann", score |-> 2]

Entries == {CommonEntry} \cup {[name |-> "bob", score |-> v] : v \in Points}

Varied == {i \in 1..Len(added) : added[i] # CommonEntry}

\* ScoreManager.add_score(name, score)
AddScore(name, sc) ==
    /\ Len(added) < MaxAdds
    /\ \/ [name |-> name, score |-> sc] = CommonEntry
       \/ Cardinality(Varied) < MaxVaried
    /\ scores' = add_score(scores, name, sc)
    /\ added' = Append(added, [name |-> name, score |-> sc])
    /\ op' = "add_score"
    /\ UNCHANGED <<functionVars, now, stateVars, game_started,
                   current_question, player_name, spawned, answered, hit,
                   ended_by, games, recorded, quizVars>>

\* ScoreManager.clear_scores()
ClearScores ==
    /\ scores' = <<>>
    /\ added' = <<>>
    /\ op' = "clear_scores"
    /\ UNCHANGED <<functionVars, now, stateVars, game_started,
                   current_question, player_name, spawned, answered, hit,
                   ended_by, games, recorded, quizVars>>

ScoreNext ==
    \/ \E e \in Entries : AddScore(e.name, e.score)
    \/ ClearScores

ScoreSpec == Init /\ [][ScoreNext]_vars

(***************************************************************************)
(* The questions (src/question_generator.py).  An answer text is its       *)
(* layout and the numbers printed in it; a number is printed as a float    *)
(* (2.0), as an integer (2) or as a word.                                  *)
(***************************************************************************)
FloatText(val) == [fmt |-> "float", val |-> val]

IntText(n) == [fmt |-> "int", val |-> Real(IntNum(n))]

WordText(val) == [fmt |-> "word", val |-> val]

Text(form, nums) == [form |-> form, nums |-> nums]

NoneText == Text("none", <<>>)

\* random.randint(-n, n), within the bound of the model
RandRange(n) == (-Min(n, MaxFake))..Min(n, MaxFake)

\* the coefficient ranges of generate_random_function
CoefRange(n) == (-Min(n, MaxCoef))..Min(n, MaxCoef)

NonZero(c) == IF c = 0 THEN 1 ELSE c

\* the list of options as a bag: random.shuffle leaves it in any order
BagOf(seq) ==
    [e \in {seq[i] : i \in 1..Len(seq)} |->
        Cardinality({i \in 1..Len(seq) : seq[i] = e})]

MultipleChoice(kind, correct, options) ==
    [kind |-> kind, question_type |-> "multiple_choice",
     correct_answer |-> correct, options |-> BagOf(options)]

\* three draws of a wrong option, each from the set fakes
WithFakes(kind, correct, fakes) ==
    {MultipleChoice(kind, correct, <<correct, f[1], f[2], f[3]>>) :
        f \in [1..3 -> fakes]}

vertical_asymptote_question ==
    LET va == vertical_asymptotes.val
        fakes == {Text("x =", << IntText(k) >>) :
                     k \in {j \in RandRange(FakeWide) :
                               \A i \in 1..Len(va) : va[i] # IntNum(j)}}
    IN  IF Len(va) = 0
        THEN {MultipleChoice("vertical_asymptote", NoneText,
                  << NoneText, Text("x =", << IntText(0) >>),
                     Text("x =", << IntText(1) >>),
                     Text("x =", << IntText(-1) >>) >>)}
        ELSE IF Len(va) = 1
        THEN WithFakes("vertical_asymptote",
                 Text("x =", << FloatText(Real(va[1])) >>), fakes)
        ELSE WithFakes("vertical_asymptote",
                 Text("x =", << FloatText(Real(va[1])),
                                FloatText(Real(va[2])) >>), fakes)

horizontal_asymptote_question ==
    LET ha == horizontal_asymptote.val
        fakes == {Text("y =", << IntText(k) >>) :
                     k \in {j \in RandRange(FakeNarrow) :
                               Real(IntNum(j)) # ha}}
    IN  IF ha = None
        THEN {MultipleChoice("horizontal_asymptote", NoneText,
                  << NoneText, Text("y =", << IntText(0) >>),
                     Text("y =", << IntText(1) >>),
                     Text("y =", << IntText(-1) >>) >>)}
        ELSE WithFakes("horizontal_asymptote",
                 Text("y =", << FloatText(ha) >>), fakes)

hole_question ==
    LET hs == holes.val
        fakes == {Text("point", << IntText(fx), IntText(fy) >>) :
                     fx \in RandRange(FakeNarrow), fy \in RandRange(FakeNarrow)}
    IN  IF Len(hs) = 0
        THEN {MultipleChoice("hole", NoneText,
                  << NoneText, Text("point", << IntText(0), IntText(0) >>),
                     Text("point", << IntText(1), IntText(1) >>),
                     Text("point", << IntText(-1), IntText(-1) >>) >>)}
        ELSE WithFakes("hole",
                 Text("point", << FloatText(Real(hs[1].x)),
                                  FloatText(hs[1].y) >>), fakes)

y_intercept_question ==
    LET y_int == y_intercept.val
        fakes == {Text("point", << IntText(0), IntText(k) >>) :
                     k \in {j \in RandRange(FakeWide) :
                               Real(IntNum(j)) # y_int}}
    IN  IF y_int = None
        THEN {MultipleChoice("y_intercept", NoneText,
                  << NoneText, Text("point", << IntText(0), IntText(0) >>),
                     Text("point", << IntText(0), IntText(1) >>),
                     Text("point", << IntText(0), IntText(-1) >>) >>)}
        ELSE WithFakes("y_intercept",
                 Text("point", << IntText(0), FloatText(y_int) >>), fakes)

x_intercept_question ==
    LET x_ints == x_intercepts.val
        fakes1 == {Text("point", << IntText(k), IntText(0) >>) :
                      k \in {j \in RandRange(FakeWide) :
                                IntNum(j) # x_ints[1]}}
        fakes2 == {Text("points", << IntText(k1), IntText(0),
                                     IntText(k2), IntText(0) >>) :
                      k1 \in RandRange(FakeWide), k2 \in RandRange(FakeWide)}
    IN  IF Len(x_ints) = 0
        THEN {MultipleChoice("x_intercept", NoneText,
                  << NoneText, Text("point", << IntText(0), IntText(0) >>),
                     Text("point", << IntText(1), IntText(0) >>),
                     Text("point", << IntText(-1), IntText(0) >>) >>)}
        ELSE IF Len(x_ints) = 1
        THEN WithFakes("x_intercept",
                 Text("point", << FloatText(Real(x_ints[1])), IntText(0) >>),
                 fakes1)
        ELSE WithFakes("x_intercept",
                 Text("points", << FloatText(Real(x_ints[1])), IntText(0),
                                   FloatText(Real(x_ints[2])), IntText(0) >>),
                 fakes2)

\* the string end_behavior() returns
EndBehaviorText(eb) ==
    IF eb.text = "approaches 0" THEN Text("approaches", << IntText(0) >>)
    ELSE IF eb.text = "approaches {ha}"
    THEN Text("approaches", << FloatText(Real(eb.h)) >>)
    ELSE IF eb.text = "approaches infinity"
    THEN Text("approaches", << WordText(PosInf) >>)
    ELSE Text("approaches", << WordText(NegInf) >>)

behaviors ==
    << Text("approaches", << IntText(0) >>),
       Text("approaches", << IntText(1) >>),
       Text("approaches", << IntText(-1) >>),
       Text("approaches", << WordText(PosInf) >>),
       Text("approaches", << WordText(NegInf) >>) >>

end_behavior_question ==
    LET correct == EndBehaviorText(end_behavior.val)
        others == SelectSeq(behaviors, LAMBDA b : b # correct)
    IN  {MultipleChoice("end_behavior", correct,
             << correct >> \o SubSeq(others, 1, 3))}

question_types ==
    {"vertical_asymptote", "horizontal_asymptote", "hole", "y_intercept",
     "x_intercept", "end_behavior"}

\* the method of the function a question type calls raises
QuestionRaises(type) ==
    \/ type = "horizontal_asymptote" /\ horizontal_asymptote.exc # ""
    \/ type = "end_behavior" /\ end_behavior.exc # ""

generate_question_by_type(type) ==
    IF type = "vertical_asymptote" THEN vertical_asymptote_question
    ELSE IF type = "horizontal_asymptote" THEN horizontal_asymptote_question
    ELSE IF type = "hole" THEN hole_question
    ELSE IF type = "y_intercept" THEN y_intercept_question
    ELSE IF type = "x_intercept" THEN x_intercept_question
    ELSE end_behavior_question

\* the coefficient lists generate_random_function can pass to the constructor
generate_random_function(level) ==
    IF level = 1
    THEN {<< <<a, b>>, <<NonZero(c), d>> >> :
             a \in CoefRange(RandCoef), b \in CoefRange(RandCoef),
             c \in CoefRange(RandCoef), d \in CoefRange(RandCoef)}
    ELSE IF level = 2
    THEN {<< <<NonZero(n[1]), n[2], n[3]>>, <<NonZero(d), e>> >> :
             n \in CoefRange(RandLead) \X CoefRange(RandCoef)
                      \X CoefRange(RandCoef),
             d \in CoefRange(RandCoef), e \in CoefRange(RandCoef)}
    ELSE {<< <<NonZero(n[1]), n[2], n[3]>>, <<NonZero(d[1]), d[2], d[3]>> >> :
             n \in CoefRange(RandLead) \X CoefRange(RandCoef)
                      \X CoefRange(RandCoef),
             d \in CoefRange(RandLead) \X CoefRange(RandCoef)
                      \X CoefRange(RandCoef)}

\* Question.check_answer(answer); the text of an answer compared after
\* "x =" and "y =" are taken out: the layout is then not compared
Normalised(text) ==
    IF text.form \in {"x =", "y ="} THEN [text EXCEPT !.form = ""] ELSE text

check_answer(q, answer) ==
    IF q.question_type = "multiple_choice"
    THEN answer = q.correct_answer
    ELSE Normalised(answer) = Normalised(q.correct_answer)

(***************************************************************************)
(* The state machine of the questions.  generate_question does not read    *)
(* the current question; it is called here with no current question, as    *)
(* start_game calls it.  Its two calls are two steps: op holds the         *)
(* position between them, where nothing else can run.                      *)
(***************************************************************************)
\* generate_question(): the difficulty level and generate_random_function()
GenerateRandomFunction ==
    /\ question = NoQuestion
    /\ op # "generate_random_function"
    /\ questions_answered < MaxAnswered
    /\ difficulty_level' = Min(MaxLevel, 1 + questions_answered \div LevelStep)
    /\ \E pr \in generate_random_function(
                    Min(MaxLevel, 1 + questions_answered \div LevelStep)) :
          /\ phase' = "constructed"
          /\ numerator' = pr[1]
          /\ denominator' = pr[2]
          /\ LET s == Simplify(PolyOf(pr[1]), PolyOf(pr[2]))
             IN  /\ simplified_num' = s[1]
                 /\ simplified_den' = s[2]
    /\ call' = "__init__"
    /\ arg' = <<>>
    /\ ret' = Returned(<<>>)
    /\ op' = "generate_random_function"
    /\ checked' = <<>>
    /\ UNCHANGED <<now, stateVars, game_started, current_question,
                   player_name, scores, historyVars, questions_answered,
                   question>>

\* generate_question(): random.choice(question_types), the question built
\* on the function, questions_answered += 1; an exception of the function's
\* method leaves generate_question before the count
GenerateQuestionByType ==
    /\ op = "generate_random_function"
    /\ \E type \in question_types :
          IF QuestionRaises(type)
          THEN /\ question' = NoQuestion
               /\ questions_answered' = questions_answered
               /\ op' = "generate_question raised"
          ELSE /\ \E q \in generate_question_by_type(type) : question' = q
               /\ questions_answered' = questions_answered + 1
               /\ op' = "generate_question"
    /\ UNCHANGED <<functionVars, now, stateVars, game_started,
                   current_question, player_name, scores, historyVars,
                   difficulty_level, checked>>

\* Question.check_answer(answer) on one of the options
CheckAnswer ==
    /\ question # NoQuestion
    /\ \E answer \in BagToSet(question.options) :
          checked' = << answer, check_answer(question, answer) >>
    /\ op' = "check_answer"
    /\ UNCHANGED <<functionVars, now, stateVars, game_started,
                   current_question, player_name, scores, historyVars,
                   difficulty_level, questions_answered, question>>

\* reset_game(): current_question = None
DropQuestion ==
    /\ question # NoQuestion
    /\ question' = NoQuestion
    /\ checked' = <<>>
    /\ op' = "reset_game"
    /\ UNCHANGED <<functionVars, now, stateVars, game_started,
                   current_question, player_name, scores, historyVars,
                   difficulty_level, questions_answered>>

QuizNext ==
    \/ GenerateRandomFunction
    \/ GenerateQuestionByType
    \/ CheckAnswer
    \/ DropQuestion

QuizSpec == Init /\ [][QuizNext]_vars

(***************************************************************************)
(* Vocabulary of the properties.                                           *)
(***************************************************************************)
\* the object stands for a rational function: its denominator is not 0
ValidFunction == phase = "constructed" /\ den_poly # <<>>

\* the number of distinct real roots of a polynomial of degree at most 2
RealRootCount(p) ==
    IF Deg(p) <= 0 THEN 0
    ELSE IF Deg(p) = 1 THEN 1
    ELSE LET D == p[2] * p[2] - 4 * p[1] * p[3]
         IN  IF D > 0 THEN 2 ELSE IF D = 0 THEN 1 ELSE 0

IsRealRootOf(p, r) == IsReal(r) /\ IsZero(PolyAt(p, r))

StrictlyAscending(s) == \A i \in 1..(Len(s) - 1) : NumLess(s[i], s[i + 1])

\* the value of the original, unsimplified ratio at x (denominator # 0 there)
OriginalRatio(x) == NumDiv(PolyAt(num_poly, x), PolyAt(den_poly, x))

(***************************************************************************)
(* C1.  Constructing a RationalFunction whose denominator list is empty or *)
(* all zero fails with InvalidFunction, and no object with a zero          *)
(* denominator is ever produced.  The constructor makes no such check.     *)
(***************************************************************************)
C1_ZeroDenominatorRejected ==
    /\ (call = "__init__" /\ den_poly = <<>>) => ret.exc = "InvalidFunction"
    /\ phase = "constructed" => den_poly # <<>>

(***************************************************************************)
(* C2.  No x is both the x-coordinate of a hole and a vertical asymptote   *)
(* of the same function.                                                   *)
(***************************************************************************)
C2_HolesAndAsymptotesDisjoint ==
    /\ call = "holes" =>
          \A i \in DOMAIN ret.val : \A j \in DOMAIN vertical_asymptotes.val :
              ret.val[i].x # vertical_asymptotes.val[j]
    /\ call = "vertical_asymptotes" =>
          \A i \in DOMAIN holes.val : \A j \in DOMAIN ret.val :
              holes.val[i].x # ret.val[j]

\* holes() has returned a hole of a function that also has an asymptote
C2_Witness ==
    /\ call = "holes"
    /\ Len(ret.val) > 0
    /\ Len(vertical_asymptotes.val) > 0

(***************************************************************************)
(* C3.  Where the original denominator is not zero, evaluate(x), computed  *)
(* from the simplified pair, equals original numerator / denominator at x. *)
(***************************************************************************)
C3_EvaluateEqualsOriginalRatio ==
    (/\ call = "evaluate"
     /\ ValidFunction
     /\ ~IsZero(PolyAt(den_poly, arg[1])))
    => ret = Returned(Real(OriginalRatio(arg[1])))

\* evaluate() has returned a nonzero value of a function with a cancelled factor
C3_Witness ==
    /\ call = "evaluate"
    /\ ValidFunction
    /\ Deg(simplified_den.c) < Deg(den_poly)
    /\ ~IsZero(PolyAt(den_poly, arg[1]))
    /\ ret.val.k = "real"
    /\ ~IsZero(ret.val.v)

(***************************************************************************)
(* C4.  horizontal_asymptote() and end_behavior() agree: a value h gives   *)
(* "approaches h" ("approaches 0" for h = 0), none gives an infinity       *)
(* classification.                                                         *)
(***************************************************************************)
C4_EndBehaviorAgreesWithAsymptote ==
    (call = "end_behavior" /\ ValidFunction) =>
        LET ha == horizontal_asymptote
        IN  /\ (ha.exc = "" /\ ha.val # None) =>
                  /\ ret.exc = ""
                  /\ ret.val.h = ha.val.v
                  /\ ret.val.text = IF IsZero(ha.val.v) THEN "approaches 0"
                                    ELSE "approaches {ha}"
            /\ (ha.exc = "" /\ ha.val = None) =>
                  /\ ret.exc = ""
                  /\ ret.val.text \in {"approaches infinity",
                                       "approaches -infinity"}

(***************************************************************************)
(* C5.  holes() never raises and returns exactly one pair (r, y) for each  *)
(* real root r of the gcd of the original numerator and denominator at     *)
(* which the simplified denominator is not zero, with                      *)
(* y = simplified_num(r) / simplified_den(r); for (x^2 - 1)/(x - 1) it     *)
(* returns [(1, 2)].                                                       *)
(***************************************************************************)
C5_HolesAreTheCancelledRoots ==
    (call = "holes" /\ ValidFunction) =>
        LET g == PolyGcd(num_poly, den_poly)
            kept(r) == /\ IsRealRootOf(g, r)
                       /\ ~IsZero(PolyAt(simplified_den.c, r))
        IN  /\ ret.exc = ""
            /\ \A i \in DOMAIN ret.val :
                  /\ kept(ret.val[i].x)
                  /\ ret.val[i].y =
                        Real(NumDiv(PolyAt(simplified_num.c, ret.val[i].x),
                                    PolyAt(simplified_den.c, ret.val[i].x)))
                  /\ \A j \in DOMAIN ret.val :
                        ret.val[j].x = ret.val[i].x => j = i
            /\ Len(ret.val) = RealRootCount(g)
                                 - RealRootCount(PolyGcd(g, simplified_den.c))
            /\ (numerator = <<1, 0, -1>> /\ denominator = <<1, -1>>) =>
                  ret.val = << [x |-> IntNum(1), y |-> Real(IntNum(2))] >>

\* holes() has returned a hole
C5_Witness ==
    /\ call = "holes"
    /\ ValidFunction
    /\ Len(ret.val) > 0

(***************************************************************************)
(* C6.  vertical_asymptotes() returns the real roots of the simplified     *)
(* denominator, each once, in strictly ascending order (none when there is *)
(* no real root); for 1/(x^2 - 4) it returns [-2, 2].                      *)
(***************************************************************************)
C6_AsymptotesAreTheDenominatorRoots ==
    (call = "vertical_asymptotes" /\ ValidFunction) =>
        /\ ret.exc = ""
        /\ \A i \in DOMAIN ret.val : IsRealRootOf(simplified_den.c, ret.val[i])
        /\ StrictlyAscending(ret.val)
        /\ Len(ret.val) = RealRootCount(simplified_den.c)
        /\ (numerator = <<1>> /\ denominator = <<1, 0, -4>>) =>
              ret.val = << IntNum(-2), IntNum(2) >>

\* vertical_asymptotes() has returned two asymptotes
C6_Witness ==
    /\ call = "vertical_asymptotes"
    /\ ValidFunction
    /\ Len(ret.val) = 2

(***************************************************************************)
(* C7.  horizontal_asymptote() returns 0 when deg(num) < deg(den), the     *)
(* ratio of the leading coefficients when the degrees are equal and none   *)
(* when deg(num) > deg(den), the same from the original pair and from the  *)
(* simplified pair.                                                        *)
(***************************************************************************)
AsymptoteOfPair(n, d) ==
    IF Deg(n) < Deg(d) THEN Real(IntNum(0))
    ELSE IF Deg(n) = Deg(d) THEN Real(Rat(n[1], d[1]))
    ELSE None

\* C7: horizontal_asymptote() returns the value the degrees and leading
\* coefficients give, of the original pair and of the simplified pair
C7_AsymptoteFromDegrees ==
    (call = "horizontal_asymptote" /\ ValidFunction) =>
        /\ ret = Returned(AsymptoteOfPair(num_poly, den_poly))
        /\ ret = Returned(AsymptoteOfPair(simplified_num.c, simplified_den.c))

(***************************************************************************)
(* C8.  evaluate(x) never raises: it returns an infinity where the         *)
(* simplified denominator is zero at x, and                                *)
(* simplified_num(x) / simplified_den(x) elsewhere.                        *)
(***************************************************************************)
C8_EvaluateNeverRaises ==
    (call = "evaluate" /\ ValidFunction) =>
        LET n == PolyAt(simplified_num.c, arg[1])
            d == PolyAt(simplified_den.c, arg[1])
        IN  /\ ret.exc = ""
            /\ IsZero(d) => ret.val \in {PosInf, NegInf}
            /\ ~IsZero(d) => ret.val = Real(NumDiv(n, d))

\* evaluate() has been called at a vertical asymptote
C8_Witness ==
    /\ call = "evaluate"
    /\ ValidFunction
    /\ IsZero(PolyAt(simplified_den.c, arg[1]))
    /\ ret.val = PosInf

(***************************************************************************)
(* C9.  When deg(num) > deg(den), end_behavior() returns the +infinity     *)
(* classification if the ratio of the leading coefficients is positive and *)
(* the -infinity classification if it is negative; x^2 / 1 gives           *)
(* +infinity.  ("approaches infinity" is read as the +infinity one.)       *)
(***************************************************************************)
C9_EndBehaviorSign ==
    (/\ call = "end_behavior"
     /\ ValidFunction
     /\ Deg(num_poly) > Deg(den_poly))
    => /\ ret.exc = ""
       /\ ret.val.text = IF num_poly[1] * den_poly[1] > 0
                         THEN "approaches infinity"
                         ELSE "approaches -infinity"

(***************************************************************************)
(* C10.  plot() samples num_points evenly spaced x values spanning the     *)
(* range; the y it emits for x is evaluate(x) when |evaluate(x)| <= 50 and *)
(* the infinity of the sign of evaluate(x) otherwise; the object, and so   *)
(* evaluate(x), is the same before and after sampling.                     *)
(***************************************************************************)
EvenlySpaced(x_vals, start, stop, n) ==
    /\ Len(x_vals) = n
    /\ n >= 1 => x_vals[1] = IntNum(start)
    /\ n >= 2 => /\ x_vals[n] = IntNum(stop)
                 /\ \A i \in 1..(n - 1) :
                       NumAdd(x_vals[i + 1], NumNeg(x_vals[i]))
                           = Rat(stop - start, n - 1)

ClippedCopyOf(y, e) ==
    LET limit == IntNum(ClipThreshold)
    IN  /\ (e.k = "real" /\ ~NumLess(limit, e.v) /\ ~NumLess(e.v, NumNeg(limit)))
               => y = e
        /\ (e.k = "inf" \/ (e.k = "real" /\ NumLess(limit, e.v)))
               => y = PosInf
        /\ (e.k = "real" /\ NumLess(e.v, NumNeg(limit)))
               => y = NegInf

\* the samples plot() has emitted, against evaluate() of the object after it
C10_SamplesInState ==
    call = "plot" =>
        /\ EvenlySpaced(ret.val.x_vals, arg[1][1], arg[1][2], arg[2])
        /\ Len(ret.val.y_vals) = arg[2]
        /\ \A i \in 1..arg[2] :
              ClippedCopyOf(ret.val.y_vals[i], evaluate(ret.val.x_vals[i]))

\* C10: every plot() emits evenly spaced, clipped copies of evaluate(x) and
\* no step into a plot() result changes the object
C10_PlotSampling ==
    /\ []C10_SamplesInState
    /\ [][call' = "plot" => UNCHANGED fields]_vars

\* plot() has emitted a value as it is and one clipped to -inf
C10_Witness ==
    /\ call = "plot"
    /\ arg[2] = 3
    /\ \E i \in 1..3 : ret.val.y_vals[i].k = "real"
    /\ \E i \in 1..3 : /\ ret.val.y_vals[i] = NegInf
                       /\ evaluate(ret.val.x_vals[i]).k = "real"

(***************************************************************************)
(* What holds of horizontal_asymptote() and end_behavior() on the calls    *)
(* that return, and when they fail: exactly when sp.LC meets a constant.   *)
(***************************************************************************)
AsymptoteWhenReturned ==
    (call = "horizontal_asymptote" /\ ValidFunction /\ ret.exc = "") =>
        /\ ret = Returned(AsymptoteOfPair(num_poly, den_poly))
        /\ ret = Returned(AsymptoteOfPair(simplified_num.c, simplified_den.c))

AsymptoteFailsOnConstants ==
    (call = "horizontal_asymptote" /\ ValidFunction) =>
        (ret.exc # "" <=>
            (Deg(simplified_num.c) = 0 /\ Deg(simplified_den.c) = 0))

EndBehaviorSignWhenReturned ==
    (/\ call = "end_behavior"
     /\ ValidFunction
     /\ Deg(num_poly) > Deg(den_poly)
     /\ ret.exc = "")
    => ret.val.text = IF num_poly[1] * den_poly[1] > 0
                      THEN "approaches infinity"
                      ELSE "approaches -infinity"

EndBehaviorFailsOnConstantDenominator ==
    (/\ call = "end_behavior"
     /\ ValidFunction
     /\ Deg(num_poly) > Deg(den_poly))
    => (ret.exc # "" <=> Deg(simplified_den.c) = 0)

EndBehaviorAgreesWhenReturned ==
    (call = "end_behavior" /\ ValidFunction /\ ret.exc = "") =>
        LET ha == horizontal_asymptote
        IN  /\ ha.exc = ""
            /\ ha.val # None =>
                  /\ ret.val.h = ha.val.v
                  /\ ret.val.text = IF IsZero(ha.val.v) THEN "approaches 0"
                                    ELSE "approaches {ha}"
            /\ ha.val = None =>
                  ret.val.text \in {"approaches infinity",
                                    "approaches -infinity"}

(***************************************************************************)
(* C11.  __str__ and to_latex are made from the original numerator and     *)
(* denominator, never from the simplified pair.  Reading the text back     *)
(* gives the coefficients of the original polynomials.                     *)
(***************************************************************************)
TermCoef(t) ==
    (IF t.neg THEN -1 ELSE 1) * (IF t.coef = <<>> THEN 1 ELSE t.coef[1])

\* the coefficient sequence a reader takes from a printed polynomial,
\* highest power first
ParseText(text) ==
    LET d == CHOOSE e \in {text[k].pow : k \in 1..Len(text)} :
                 \A k \in 1..Len(text) : text[k].pow <= e
    IN  [i \in 1..(d + 1) |->
            LET ts == {k \in 1..Len(text) : text[k].pow = d + 1 - i}
            IN  IF ts = {} THEN 0 ELSE TermCoef(text[CHOOSE k \in ts : TRUE])]

IsText == call \in {"to_latex", "__str__"}

\* the text differs from the text of the simplified pair whenever the
\* simplified pair is not the original pair
DiffersFromSimplifiedText ==
    (\/ simplified_num.c # num_poly
     \/ simplified_den.c # den_poly)
    => \/ ret.val.num # PolyText(simplified_num.c)
       \/ ret.val.den # PolyText(simplified_den.c)

\* C11 as stated: the original coefficient sequences themselves are read
\* back from the text
C11_TextRecoversSequences ==
    (IsText /\ ValidFunction) =>
        /\ ret.exc = ""
        /\ ParseText(ret.val.num) = numerator
        /\ ParseText(ret.val.den) = denominator
        /\ DiffersFromSimplifiedText

\* C11, amended: the text of __str__ and to_latex reads back as the original
\* coefficient sequences without their leading zeros, and is not the text of
\* the simplified pair when that pair differs from the original
C11_TextRecoversPolynomials ==
    IsText =>
        /\ ret.exc = ""
        /\ Norm(ParseText(ret.val.num)) = Norm(numerator)
        /\ Norm(ParseText(ret.val.den)) = Norm(denominator)
        /\ DiffersFromSimplifiedText

\* (x^2 - 1)/(x - 1), whose simplified pair is (x + 1)/1, printed
C11_Witness ==
    /\ call = "__str__"
    /\ numerator = <<1, 0, -1>>
    /\ denominator = <<1, -1>>
    /\ simplified_den.c = <<1>>
    /\ ret.val.num = << TermOf(1, 2), TermOf(-1, 0) >>
    /\ ParseText(ret.val.den) = <<1, -1>>

(***************************************************************************)
(* C12.  Simplification is idempotent.  When the gcd of the original       *)
(* numerator and denominator has degree 0 the simplified pair is the       *)
(* original pair up to a common constant factor, and the constructor       *)
(* applied to a simplified pair has that pair as its simplified form.      *)
(***************************************************************************)
SameUpToScale ==
    LET k == PolyGcd(num_poly, den_poly)[1]
    IN  /\ Scale(simplified_num.c, k) = num_poly
        /\ Scale(simplified_den.c, k) = den_poly

C12_SimplifyIdempotent ==
    (call = "__init__" /\ ValidFunction) =>
        /\ Deg(PolyGcd(num_poly, den_poly)) = 0 =>
              /\ ~simplified_num.nan
              /\ ~simplified_den.nan
              /\ SameUpToScale
        /\ arg # <<>> =>
              /\ simplified_num = arg[1]
              /\ simplified_den = arg[2]

\* 2x/4 has the constant gcd 2 and the simplified pair x/2; x/2 built again
\* is x/2
C12_Witness ==
    /\ call = "__init__"
    /\ arg = << Poly(<<1, 0>>), Poly(<<2>>) >>
    /\ numerator = <<1, 0>>
    /\ denominator = <<2>>
    /\ simplified_num = Poly(<<1, 0>>)
    /\ simplified_den = Poly(<<2>>)

\* (x^2 - 1)/(x - 1) simplifies to (x + 1)/1, and (x + 1)/1 built again is
\* (x + 1)/1
C12_WitnessCancelled ==
    /\ call = "__init__"
    /\ arg = << Poly(<<1, 1>>), Poly(<<1>>) >>
    /\ simplified_num = Poly(<<1, 1>>)
    /\ simplified_den = Poly(<<1>>)

(***************************************************************************)
(* C13.  y_intercept() returns None exactly when the simplified            *)
(* denominator is 0 at x = 0 and otherwise simplified_num(0) /             *)
(* simplified_den(0), also when x = 0 is a hole; for 1/(x^2 - 4) it        *)
(* returns -0.25.                                                          *)
(***************************************************************************)
C13_YIntercept ==
    (call = "y_intercept" /\ ValidFunction) =>
        LET n0 == PolyAt(simplified_num.c, IntNum(0))
            d0 == PolyAt(simplified_den.c, IntNum(0))
        IN  /\ ret.exc = ""
            /\ ret.val = None <=> IsZero(d0)
            /\ ~IsZero(d0) => ret.val = Real(NumDiv(n0, d0))
            /\ (numerator = <<1>> /\ denominator = <<1, 0, -4>>)
                  => ret.val = Real(Rat(-1, 4))

\* x/x: x = 0 is a hole and the intercept is that of the simplified 1/1
C13_Witness ==
    /\ call = "y_intercept"
    /\ numerator = <<1, 0>>
    /\ denominator = <<1, 0>>
    /\ holes = Returned(<< [x |-> IntNum(0), y |-> Real(IntNum(1))] >>)
    /\ ret.val = Real(IntNum(1))

\* 1/(x^2 - 4)
C13_WitnessExample ==
    /\ call = "y_intercept"
    /\ numerator = <<1>>
    /\ denominator = <<1, 0, -4>>
    /\ ret.val = Real(Rat(-1, 4))

\* 1/x: no intercept
C13_WitnessNone ==
    /\ call = "y_intercept"
    /\ numerator = <<1>>
    /\ denominator = <<1, 0>>
    /\ ret.val = None

(***************************************************************************)
(* C14.  After handle_answer has processed a correct answer, the obstacle  *)
(* that was approaching does not set game_over in any later update().      *)
(***************************************************************************)
C14_AnsweredObstacleNeverHits == hit \cap answered = {}

\* what the code does instead: the pause of handle_answer outlasts the jump,
\* so no update() ever finds the player jumping
JumpOverBeforeUpdate == op = "update" => ~is_jumping

(***************************************************************************)
(* C15.  After handle_answer has processed a wrong answer, game_over is    *)
(* true, the player's score has been added to the leaderboard exactly once *)
(* for that game, and every later update() leaves score, distance, speed   *)
(* and obstacles unchanged, until reset().                                 *)
(***************************************************************************)
PlayerEntry == [name |-> player_name, score |-> score]

C15_EndedByWrongAnswer ==
    ended_by = "answer" =>
        /\ game_over
        /\ recorded = << PlayerEntry >>
        /\ Len(added) <= TopScores =>
              \E i \in 1..Len(scores) : scores[i] = PlayerEntry

C15_UpdateChangesNothing ==
    (ended_by = "answer" /\ op' = "update") =>
        UNCHANGED <<score, distance, speed, obstacles>>

\* C15: a wrong answer ends the game, records the score once, and update()
\* changes nothing from then on until reset()
C15_WrongAnswerEndsGame ==
    /\ []C15_EndedByWrongAnswer
    /\ [][C15_UpdateChangesNothing]_vars

\* update() has been called after a wrong answer, given after a correct one
C15_Witness ==
    /\ ended_by = "answer"
    /\ op = "update"
    /\ game_over
    /\ score > AnswerBonus
    /\ obstacles # <<>>
    /\ scores = << PlayerEntry >>

(***************************************************************************)
(* C16.  After any sequence of add_score and clear_scores from an empty    *)
(* list, the list has at most 50 entries, is in non-increasing order of    *)
(* score and holds the 50 highest scores added since the last clear (all   *)
(* of them when fewer than 50 were added).                                 *)
(***************************************************************************)
AtLeast(list, v) == Cardinality({i \in 1..Len(list) : list[i].score >= v})

C16_TopScoresKept ==
    /\ Len(scores) <= TopScores
    /\ Len(scores) = Min(TopScores, Len(added))
    /\ \A i \in 1..(Len(scores) - 1) : scores[i].score >= scores[i + 1].score
    /\ \A v \in Points : AtLeast(scores, v) = Min(TopScores, AtLeast(added, v))

\* 51 entries were added, the first of them the lowest: it is gone
C16_Witness ==
    /\ op = "add_score"
    /\ Len(added) = TopScores + 1
    /\ added[1].score = 1
    /\ Len(scores) = TopScores
    /\ scores[TopScores].score = 2

(***************************************************************************)
(* C17.  Among the retained entries of one score the earlier added comes   *)
(* first, and with 50 entries in the list a new entry whose score is the   *)
(* lowest retained score is discarded, displacing nothing.                 *)
(***************************************************************************)
WithScore(list, v) == SelectSeq(list, LAMBDA e : e.score = v)

IsPrefix(s, t) == Len(s) <= Len(t) /\ s = SubSeq(t, 1, Len(s))

C17_EarliestOfEachScore ==
    \A v \in Points : IsPrefix(WithScore(scores, v), WithScore(added, v))

C17_LowestTieDiscarded ==
    (/\ op' = "add_score"
     /\ Len(scores) = TopScores
     /\ added' # <<>>
     /\ added'[Len(added')].score = scores[TopScores].score)
    => scores' = scores

\* C17: equal scores rank in insertion order, and a new entry equal to the
\* lowest of a full list is discarded
C17_TiesByInsertion ==
    /\ []C17_EarliestOfEachScore
    /\ [][C17_LowestTieDiscarded]_vars

\* bob's 2 came after fifty 2s of ann and is not in the list
C17_Witness ==
    /\ op = "add_score"
    /\ Len(added) = TopScores + 1
    /\ added[TopScores + 1] = [name |-> "bob", score |-> 2]
    /\ Len(scores) = TopScores
    /\ \A i \in 1..TopScores : scores[i] = CommonEntry

\* bob's 2 came between two 2s of ann and is between them in the list
C17_WitnessOrder ==
    /\ Len(scores) >= 3
    /\ scores[1] = CommonEntry
    /\ scores[2] = [name |-> "bob", score |-> 2]
    /\ scores[3] = CommonEntry

(***************************************************************************)
(* C18.  Every question generate_question produces has exactly one         *)
(* mathematically correct option: correct_answer is one of its four        *)
(* options, check_answer accepts it, and no other option denotes the same  *)
(* value(s).                                                               *)
(***************************************************************************)
\* what a text says, however its numbers are printed
Denotes(text) ==
    [form |-> text.form,
     vals |-> [i \in 1..Len(text.nums) |-> text.nums[i].val]]

C18_OneCorrectOption ==
    question # NoQuestion =>
        /\ BagCardinality(question.options) = 4
        /\ BagIn(question.correct_answer, question.options)
        /\ check_answer(question, question.correct_answer)
        /\ \A o \in BagToSet(question.options) :
              o # question.correct_answer
                  => Denotes(o) # Denotes(question.correct_answer)

\* the part that holds: four options, the correct text among them, accepted
OptionsHoldCorrectAnswer ==
    question # NoQuestion =>
        /\ BagCardinality(question.options) = 4
        /\ BagIn(question.correct_answer, question.options)
        /\ check_answer(question, question.correct_answer)

\* a question with an option that says what the correct answer says
SecondCorrectOption(kind) ==
    /\ question # NoQuestion
    /\ question.kind = kind
    /\ \E o \in BagToSet(question.options) :
          /\ o # question.correct_answer
          /\ Denotes(o) = Denotes(question.correct_answer)

NoSecondCorrectHole == ~SecondCorrectOption("hole")

NoSecondCorrectXIntercept == ~SecondCorrectOption("x_intercept")

NoSecondCorrectEndBehavior == ~SecondCorrectOption("end_behavior")

NoSecondCorrectOther ==
    \A kind \in {"vertical_asymptote", "horizontal_asymptote", "y_intercept"} :
        ~SecondCorrectOption(kind)

=============================================================================
